---- MODULE Spec2Model ----
(***************************************************************************)
(* Model of bot.py: the LFT/LFP listing bot.                               *)
(*                                                                         *)
(* State: the two in-memory dictionaries (last_post_at,                    *)
(* active_message_ids), the channel configuration, the messages that are   *)
(* live on the platform, the moderation views (tickets) and the handlers   *)
(* that are suspended at an await.  Every handler is cut at its awaits:    *)
(* one action is the code that runs between two suspension points.  A      *)
(* platform call (fetch, delete, send, edit) either succeeds or raises;    *)
(* both outcomes are enabled wherever the code issues the call.            *)
(*                                                                         *)
(* Time is in seconds.  datetime.utcnow() is the variable now.             *)
(***************************************************************************)
EXTENDS Integers, Sequences, FiniteSets, TLC

\* ---------------------------------------------------------------- bounds
MaxTicks == 2          \* clock advances
MaxMessages == 2       \* listing messages ever sent
MaxTickets == 1        \* moderation views ever created
MaxSteps == 16         \* advances of the seconds clock (SpecCooldown)
ClockStep == 40        \* seconds per advance of the seconds clock
MaxGap == 2            \* longest run of whitespace in a form text
MaxExtra == 3          \* text lengths tried on either side of the summary limit
LongText == 450        \* a text well over the summary limit
MaxQueued == 4         \* moderation views ever created (SpecEnqueue)

\* ------------------------------------------------------------- constants
COOLDOWN_MINUTES == 10
POST_EXPIRY_DAYS == 7
SummaryLimit == 400    \* clean(..., 400): the limit of a listing's summary
TitleLimit == 300      \* clean(text, limit=300): the limit of a title

Users == {"u1", "u2"}
TaskIds == {"h1", "h2"}

None == "None"                 \* what bot.get_channel() returns for no channel
NoTime == 0 - 1                \* last_post_at has no entry for the user
NoChannel == "0"               \* channel id 0: not configured
LftChannel == "ch_lft"
LfpChannel == "ch_lfp"
QueueChannel == "ch_queue"
HiddenChannel == "ch_hidden"   \* an id bot.get_channel() cannot resolve

Day == 24 * 60 * 60
CooldownWindow == COOLDOWN_MINUTES * 60     \* timedelta(minutes=COOLDOWN_MINUTES)
ExpiryWindow == POST_EXPIRY_DAYS * Day      \* timedelta(days=POST_EXPIRY_DAYS)

\* The instants the clock passes through: 0, then 2 days, 8 days, 14 days...
\* A listing sent at 0 is one day past the expiry window at 8 days, one sent
\* at 2 days is one day short of it.
TimeAt(i) == IF i = 0 THEN 0 ELSE 2 * Day + (i - 1) * 6 * Day

VARIABLES
    now,                  \* datetime.utcnow()
    LFT_CHANNEL_ID,
    LFP_CHANNEL_ID,
    MOD_QUEUE_CHANNEL_ID,
    last_post_at,         \* user -> time of last mark_post, or NoTime
    active_message_ids,   \* the dict as a set of <<user_id, message_id>>
    messages,             \* live listing messages: [id, chan, at, owner]
    next_id,              \* next message id the platform hands out
    tickets,              \* sequence of ApprovalView instances
    modals,               \* tickets with an open RejectReasonModal
    tasks,                \* running handlers, each at an await
    sweep,                \* expire_loop
    render                \* a form's long text and the summary made of it

vars == <<now, LFT_CHANNEL_ID, LFP_CHANNEL_ID, MOD_QUEUE_CHANNEL_ID,
          last_post_at, active_message_ids, messages, next_id, tickets,
          modals, tasks, sweep, render>>

config == <<LFT_CHANNEL_ID, LFP_CHANNEL_ID, MOD_QUEUE_CHANNEL_ID>>

\* ------------------------------------------------------------- utilities
\* bot.get_channel(cid): None for an id that is 0 or not resolvable.
get_channel(cid) == IF cid \in {NoChannel, HiddenChannel} THEN None ELSE cid

\* active_message_ids.get(user_id): the message id, or 0.
registry_get(u) ==
    IF \E e \in active_message_ids : e[1] = u
    THEN (CHOOSE e \in active_message_ids : e[1] = u)[2]
    ELSE 0

IsLive(mid) == \E m \in messages : m.id = mid
MessageOf(mid) == CHOOSE m \in messages : m.id = mid
CreatedAt(mid) == IF IsLive(mid) THEN MessageOf(mid).at ELSE NoTime

\* cooldown_ok with <= for <: the end of the window still blocks.
cooldown_ok_inclusive(u) ==
    LET last == last_post_at[u] IN
    IF last # NoTime /\ now - last <= CooldownWindow
    THEN LET q == (CooldownWindow - (now - last)) \div 60
         IN [ok |-> FALSE, mins |-> IF q > 1 THEN q ELSE 1]
    ELSE [ok |-> TRUE, mins |-> 0]

\* cooldown_ok(user_id): [ok, mins].
cooldown_ok(u) ==
    LET last == last_post_at[u] IN
    IF last # NoTime /\ now - last < CooldownWindow
    THEN LET remaining == CooldownWindow - (now - last)
             secs == remaining
             q == secs \div 60
             mins == IF q > 1 THEN q ELSE 1
         IN [ok |-> FALSE, mins |-> mins]
    ELSE [ok |-> TRUE, mins |-> 0]

\* mark_post(user_id, message_id): the two dictionary assignments.
mark_post_time(u) == [last_post_at EXCEPT ![u] = now]

\* A registry that adds the entry without replacing the user's old one.
mark_post_registry_append(u, mid) == active_message_ids \cup {<<u, mid>>}

mark_post_registry(u, mid) ==
    {e \in active_message_ids : e[1] # u} \cup {<<u, mid>>}

\* A clear_cooldown that pops nothing.
clear_cooldown_kept(u) == last_post_at

\* clear_cooldown(user_id)
clear_cooldown(u) == [last_post_at EXCEPT ![u] = NoTime]

IdleTask == [op |-> "idle", pc |-> "idle", kind |-> "-", user |-> "-",
             ticket |-> 0, mid |-> 0, cidx |-> 0, msg |-> 0,
             deleted |-> FALSE, tried |-> FALSE, mins |-> 0, perm |-> TRUE,
             first |-> FALSE]

\* ------------------------------------------------------------------ text
\* A text is a sequence of characters.  What clean() appends to a cut text:
\* the three characters of the string literal on line 53.
Marker == <<"a-circumflex", "euro-sign", "broken-bar">>

IsSpace(c) == c \in {" ", "\n", "\t"}

\* re.sub(r"\s+", " ", text): every maximal run of whitespace becomes one
\* space.
re_sub(text) ==
    LET marked == [i \in 1..Len(text) |->
                     [c |-> IF IsSpace(text[i]) THEN " " ELSE text[i],
                      keep |-> \/ ~IsSpace(text[i])
                               \/ i = 1
                               \/ ~IsSpace(text[i - 1])]]
        kept == SelectSeq(marked, LAMBDA r : r.keep)
    IN [i \in 1..Len(kept) |-> kept[i].c]

\* str.strip(): without the whitespace at either end.
strip(text) ==
    IF \A i \in 1..Len(text) : IsSpace(text[i]) THEN <<>>
    ELSE LET first == CHOOSE i \in 1..Len(text) :
                          /\ ~IsSpace(text[i])
                          /\ \A j \in 1..(i - 1) : IsSpace(text[j])
             last == CHOOSE i \in 1..Len(text) :
                          /\ ~IsSpace(text[i])
                          /\ \A j \in (i + 1)..Len(text) : IsSpace(text[j])
         IN SubSeq(text, first, last)

\* clean(text, limit)
clean(text, limit) ==
    LET t == strip(re_sub(text)) IN
    IF Len(t) > limit THEN SubSeq(t, 1, limit - 1) \o Marker ELSE t

\* The texts a form is filled with: n letters, a run of whitespace in front,
\* one in the middle and one at the end.
Letter(i) == IF i % 2 = 1 THEN "a" ELSE "b"
Run(c, n) == [i \in 1..n |-> c]
Text(lead, n, gap, trail, ws) ==
    Run(ws, lead) \o [i \in 1..(n \div 2) |-> Letter(i)] \o Run(ws, gap)
        \o [i \in 1..(n - n \div 2) |-> Letter(n \div 2 + i)] \o Run(ws, trail)
TextLengths ==
    (0..2) \cup ((SummaryLimit - MaxExtra)..(SummaryLimit + MaxExtra)) \cup {LongText}
Texts ==
    {Text(lead, n, gap, trail, ws) :
        lead \in 0..MaxGap, n \in TextLengths, gap \in 0..MaxGap,
        trail \in 0..MaxGap, ws \in {" ", "\n"}}

\* What the first field of a form (Riot ID, Team Name) is filled with.
ShortTexts ==
    {Text(lead, n, gap, 0, " ") : lead \in 0..1, n \in {0, 2}, gap \in 0..1}

\* build_title_and_fields(kind, data).  A form is its first field (name) and
\* its long field (details); the three fields between them are copied into
\* fields in the same way as the first.
Heading(kind) == IF kind = "lft" THEN <<"L", "F", "T", " ">> ELSE <<"L", "F", "P", " ">>
LongKey(kind) == IF kind = "lft" THEN "Details" ELSE "Benefits/Details"
NameKey(kind) == IF kind = "lft" THEN "Riot ID (with #)" ELSE "Team Name"
build_title_and_fields(kind, data) ==
    [title |-> clean(Heading(kind) \o data.name, TitleLimit),
     fields |-> <<[k |-> NameKey(kind), v |-> data.name],
                  [k |-> LongKey(kind), v |-> data.details]>>]

\* The loop of lines 130-134: the value of every field that is not the long
\* one and is not empty, as it is.
add_fields(fields, long_key) ==
    LET shown == SelectSeq(fields, LAMBDA f : f.k # long_key /\ f.v # <<>>)
    IN [i \in 1..Len(shown) |-> shown[i].v]

\* fields.get(long_key, "")
fields_get(fields, key) ==
    LET found == SelectSeq(fields, LAMBDA f : f.k = key)
    IN IF Len(found) = 0 THEN <<>> ELSE found[1].v

\* No form is being rendered.
NoRender == [pc |-> "none", kind |-> "-", name |-> <<>>, details |-> <<>>,
             title |-> <<>>, summary |-> <<>>, sections |-> <<>>]

IdleSweep == [pc |-> "sleep", now |-> 0, items |-> <<>>, i |-> 0, cidx |-> 0,
              to_delete |-> {}, seen |-> <<>>, raised |-> {}]

Init ==
    /\ now = 0
    /\ LFT_CHANNEL_ID = LftChannel
    /\ LFP_CHANNEL_ID \in {NoChannel, LfpChannel}
    /\ MOD_QUEUE_CHANNEL_ID \in {NoChannel, QueueChannel, HiddenChannel}
    /\ last_post_at = [u \in Users |-> NoTime]
    /\ active_message_ids = {}
    /\ messages = {}
    /\ next_id = 1
    /\ tickets = <<>>
    /\ modals = {}
    /\ tasks = [t \in TaskIds |-> IdleTask]
    /\ sweep = IdleSweep
    /\ render = NoRender

\* No handler is suspended at an await and expire_loop is in asyncio.sleep.
Quiescent ==
    /\ \A t \in TaskIds : tasks[t].op = "idle"
    /\ sweep.pc = "sleep"

\* The clock moves to its next instant.  The instants are minutes or days
\* apart and a platform call returns within one of them: the clock advances
\* between handlers, and every utcnow() of one handler reads the same instant.
Tick ==
    /\ Quiescent
    /\ \E i \in 0..(MaxTicks - 1) : now = TimeAt(i) /\ now' = TimeAt(i + 1)
    /\ UNCHANGED <<config, render, last_post_at, active_message_ids, messages, next_id,
                   tickets, modals, tasks, sweep>>

\* ------------------------------------------------- handlers: shared parts
\* The status a ticket shows to an observer: the first decision that took
\* effect on it.  The code keeps no such field; it is recorded here so that
\* the decisions applied to one view can be told apart.
Decide(status, decision) == IF status = "Pending" THEN decision ELSE status

Channels == <<LFT_CHANNEL_ID, LFP_CHANNEL_ID>>
TargetChannel(kind) == IF kind = "lft" THEN LFT_CHANNEL_ID ELSE LFP_CHANNEL_ID

\* The loop head of maybe_delete_previous: the first index >= j whose channel
\* is configured and resolvable, 3 when the loop is over.
NextChan(j) ==
    IF j <= 1 /\ get_channel(Channels[1]) # None THEN 1
    ELSE IF j <= 2 /\ get_channel(Channels[2]) # None THEN 2
    ELSE 3

\* post_embed up to its first await: the channel lookup of lines 115-118.
\* A handler that reaches it is next suspended in channel.send, or has raised.
post_embed_entry(task) ==
    IF get_channel(TargetChannel(task.kind)) = None
    THEN [task EXCEPT !.pc = "error", !.cidx = 0]
    ELSE [task EXCEPT !.pc = "send", !.cidx = 0]

\* A handler that goes to post_embed without its fetch-and-delete loop.
maybe_delete_previous_skipped(task) ==
    post_embed_entry([task EXCEPT !.mid = registry_get(task.user)])

\* maybe_delete_previous up to its first await.
maybe_delete_previous_entry(task) ==
    LET mid == registry_get(task.user)
        j == NextChan(1)
    IN IF mid = 0 \/ j = 3
       THEN post_embed_entry([task EXCEPT !.mid = mid])
       ELSE [task EXCEPT !.pc = "del", !.mid = mid, !.cidx = j]

\* Handlers that may still send a listing, and listings sent so far.
Publishing == {t \in TaskIds : tasks[t].pc \in {"del", "send"}}
MessageRoom(limit) == (next_id - 1) + Cardinality(Publishing) < limit
MessageBudget == MessageRoom(MaxMessages)
Enqueueing == {t \in TaskIds : tasks[t].pc = "qsend"}
TicketRoom(limit) == Len(tickets) + Cardinality(Enqueueing) < limit
TicketBudget == TicketRoom(MaxTickets)

\* --------------------------------------- LFTModal / LFPModal .on_submit
\* A handler whose blocked answer drops the user's cooldown record.
on_submit_forgiving(t, u, k, ticket_room, message_room) ==
    /\ tasks[t].op = "idle"
    /\ LET r == cooldown_ok(u)
           base == [IdleTask EXCEPT !.op = "submit", !.user = u, !.kind = k]
       IN IF ~r.ok
          THEN /\ tasks' = [tasks EXCEPT ![t] =
                              [base EXCEPT !.pc = "blocked", !.mins = r.mins]]
               /\ last_post_at' = clear_cooldown(u)
          ELSE /\ UNCHANGED last_post_at
               /\ IF MOD_QUEUE_CHANNEL_ID # NoChannel
                  THEN IF get_channel(MOD_QUEUE_CHANNEL_ID) = None
                       THEN tasks' = [tasks EXCEPT ![t] = [base EXCEPT !.pc = "noqueue"]]
                       ELSE /\ ticket_room
                            /\ tasks' = [tasks EXCEPT ![t] = [base EXCEPT !.pc = "qsend"]]
                  ELSE /\ message_room
                       /\ tasks' = [tasks EXCEPT ![t] = maybe_delete_previous_entry(base)]
    /\ UNCHANGED <<now, config, render, active_message_ids, messages,
                   next_id, tickets, modals, sweep>>

\* A handler that never looks at MOD_QUEUE_CHANNEL_ID: it always posts.
on_submit_unrouted(t, u, k, ticket_room, message_room) ==
    /\ tasks[t].op = "idle"
    /\ LET r == cooldown_ok(u)
           base == [IdleTask EXCEPT !.op = "submit", !.user = u, !.kind = k]
       IN IF ~r.ok
          THEN tasks' = [tasks EXCEPT ![t] =
                           [base EXCEPT !.pc = "blocked", !.mins = r.mins]]
          ELSE /\ message_room
               /\ tasks' = [tasks EXCEPT ![t] = maybe_delete_previous_entry(base)]
    /\ UNCHANGED <<now, config, render, last_post_at, active_message_ids, messages,
                   next_id, tickets, modals, sweep>>

\* Lines 188-221 (264-297): the code up to the first await.  ticket_room and
\* message_room say whether the bounds leave room for one more moderation
\* view, one more listing.
on_submit_within(t, u, k, ticket_room, message_room) ==
    /\ tasks[t].op = "idle"
    /\ LET r == cooldown_ok(u)
           base == [IdleTask EXCEPT !.op = "submit", !.user = u, !.kind = k]
       IN IF ~r.ok
          THEN tasks' = [tasks EXCEPT ![t] =
                           [base EXCEPT !.pc = "blocked", !.mins = r.mins]]
          ELSE IF MOD_QUEUE_CHANNEL_ID # NoChannel
          THEN IF get_channel(MOD_QUEUE_CHANNEL_ID) = None
               THEN tasks' = [tasks EXCEPT ![t] = [base EXCEPT !.pc = "noqueue"]]
               ELSE /\ ticket_room
                    /\ tasks' = [tasks EXCEPT ![t] = [base EXCEPT !.pc = "qsend"]]
          ELSE /\ message_room
               /\ tasks' = [tasks EXCEPT ![t] = maybe_delete_previous_entry(base)]
    /\ UNCHANGED <<now, config, render, last_post_at, active_message_ids, messages,
                   next_id, tickets, modals, sweep>>

on_submit(t, u, k) == on_submit_within(t, u, k, TicketBudget, MessageBudget)

LFTModal_on_submit == \E t \in TaskIds, u \in Users : on_submit(t, u, "lft")
LFPModal_on_submit == \E t \in TaskIds, u \in Users : on_submit(t, u, "lfp")

\* An enqueue that starts the author's cooldown.
QueueSend_marking(t) ==
    /\ tasks[t].pc = "qsend"
    /\ \/ /\ tickets' = Append(tickets,
                 [kind |-> tasks[t].kind, author_id |-> tasks[t].user,
                  view |-> TRUE, status |-> "Pending"])
          /\ last_post_at' = mark_post_time(tasks[t].user)
          /\ tasks' = [tasks EXCEPT ![t] = IdleTask]
       \/ /\ tasks' = [tasks EXCEPT ![t].pc = "error"]
          /\ UNCHANGED <<tickets, last_post_at>>
    /\ UNCHANGED <<now, config, render, active_message_ids, messages,
                   next_id, modals, sweep>>

\* qch.send(embed, view) returns or raises (lines 219-221, 295-297).
QueueSend(t) ==
    /\ tasks[t].pc = "qsend"
    /\ \/ /\ tickets' = Append(tickets,
                 [kind |-> tasks[t].kind, author_id |-> tasks[t].user,
                  view |-> TRUE, status |-> "Pending"])
          /\ tasks' = [tasks EXCEPT ![t] = IdleTask]
       \/ /\ tasks' = [tasks EXCEPT ![t].pc = "error"]
          /\ UNCHANGED tickets
    /\ UNCHANGED <<now, config, render, last_post_at, active_message_ids, messages,
                   next_id, modals, sweep>>

\* ------------------------------------------------ maybe_delete_previous
\* One pass of the loop body (lines 82-87) on channel cidx: fetch_message and
\* delete return, or one of them raises and the loop continues.
delete_previous_found(task) ==
    post_embed_entry([task EXCEPT !.deleted = TRUE, !.tried = TRUE])

\* A loop body without its except clause: the failure reaches the handler's
\* own except and the publish is given up.
delete_previous_failed_raising(task) ==
    [task EXCEPT !.pc = "error", !.tried = TRUE]

delete_previous_failed(task) ==
    LET j == NextChan(task.cidx + 1) IN
    IF j = 3 THEN post_embed_entry([task EXCEPT !.tried = TRUE])
    ELSE [task EXCEPT !.cidx = j, !.tried = TRUE]

maybe_delete_previous(t) ==
    /\ tasks[t].pc = "del"
    /\ LET c == Channels[tasks[t].cidx]
           mid == tasks[t].mid
       IN \/ /\ IsLive(mid) /\ MessageOf(mid).chan = c
             /\ messages' = messages \ {MessageOf(mid)}
             /\ tasks' = [tasks EXCEPT ![t] = delete_previous_found(tasks[t])]
          \/ /\ UNCHANGED messages
             /\ tasks' = [tasks EXCEPT ![t] = delete_previous_failed(tasks[t])]
    /\ UNCHANGED <<now, config, render, last_post_at, active_message_ids, next_id,
                   tickets, modals, sweep>>

\* ------------------------------------------------------------ post_embed
\* channel.send returns the new message (line 143) or raises.
post_embed_send(t) ==
    /\ tasks[t].pc = "send"
    /\ \/ /\ messages' = messages \cup
                 {[id |-> next_id, chan |-> get_channel(TargetChannel(tasks[t].kind)),
                   at |-> now, owner |-> tasks[t].user]}
          /\ next_id' = next_id + 1
          /\ tasks' = [tasks EXCEPT ![t].pc = "thread", ![t].msg = next_id]
          /\ tickets' = IF tasks[t].op = "approve"
                        THEN [tickets EXCEPT ![tasks[t].ticket].status = Decide(@, "Approved")]
                        ELSE tickets
       \/ /\ tasks' = [tasks EXCEPT ![t].pc = "error"]
          /\ UNCHANGED <<messages, next_id, tickets>>
    /\ UNCHANGED <<now, config, render, last_post_at, active_message_ids, modals, sweep>>

\* create_thread returns or raises (lines 144-148); post_embed returns and the
\* caller runs mark_post (lines 225, 301, 376).
post_embed_return(t) ==
    /\ tasks[t].pc = "thread"
    /\ last_post_at' = mark_post_time(tasks[t].user)
    /\ active_message_ids' = mark_post_registry(tasks[t].user, tasks[t].msg)
    /\ tasks' = [tasks EXCEPT ![t] =
                   IF tasks[t].op = "approve" THEN [@ EXCEPT !.pc = "notify"]
                   ELSE [@ EXCEPT !.pc = "posted"]]
    /\ UNCHANGED <<now, config, render, messages, next_id, tickets, modals, sweep>>

\* ---------------------------------------------------------- ApprovalView
\* The Approve button (lines 368-376) up to the first await.  The button can
\* be pressed while the queue message still carries the view.
\* An Approve button without the permission gate of lines 370-372.
approve_ungated(t, k, perm) ==
    /\ tasks[t].op = "idle"
    /\ k \in 1..Len(tickets)
    /\ tickets[k].view
    /\ MessageBudget
    /\ tasks' = [tasks EXCEPT ![t] = maybe_delete_previous_entry(
                   [IdleTask EXCEPT !.op = "approve", !.ticket = k, !.perm = perm,
                       !.user = tickets[k].author_id, !.kind = tickets[k].kind])]
    /\ UNCHANGED <<now, config, render, last_post_at, active_message_ids, messages,
                   next_id, tickets, modals, sweep>>

approve(t, k, perm) ==
    /\ tasks[t].op = "idle"
    /\ k \in 1..Len(tickets)
    /\ tickets[k].view
    /\ LET base == [IdleTask EXCEPT !.op = "approve", !.ticket = k,
                       !.user = tickets[k].author_id, !.kind = tickets[k].kind]
       IN IF ~perm
          THEN tasks' = [tasks EXCEPT ![t] =
                           [base EXCEPT !.pc = "denied", !.perm = FALSE]]
          ELSE /\ MessageBudget
               /\ tasks' = [tasks EXCEPT ![t] = maybe_delete_previous_entry(base)]
    /\ UNCHANGED <<now, config, render, last_post_at, active_message_ids, messages,
                   next_id, tickets, modals, sweep>>

ApprovalView_approve ==
    \E t \in TaskIds, k \in 1..Len(tickets), perm \in BOOLEAN : approve(t, k, perm)

\* The Reject button (lines 407-427): the permission gate, then send_modal.
\* A send_modal that raises leaves every variable as it is.
reject(t, k, perm) ==
    /\ k \in 1..Len(tickets)
    /\ tickets[k].view
    /\ IF ~perm
       THEN /\ tasks[t].op = "idle"
            /\ tasks' = [tasks EXCEPT ![t] =
                           [IdleTask EXCEPT !.op = "reject", !.pc = "denied",
                               !.perm = FALSE, !.ticket = k, !.user = tickets[k].author_id,
                               !.kind = tickets[k].kind]]
            /\ UNCHANGED modals
       ELSE /\ modals' = modals \cup {k}
            /\ UNCHANGED tasks
    /\ UNCHANGED <<now, config, render, last_post_at, active_message_ids, messages,
                   next_id, tickets, sweep>>

ApprovalView_reject ==
    \E t \in TaskIds, k \in 1..Len(tickets), perm \in BOOLEAN : reject(t, k, perm)

\* A rejection that also forgets the author's listing.
RejectReasonModal_on_submit_unlisting(t, k) ==
    /\ tasks[t].op = "idle"
    /\ k \in modals
    /\ modals' = modals \ {k}
    /\ last_post_at' = clear_cooldown(tickets[k].author_id)
    /\ active_message_ids' = {e \in active_message_ids : e[1] # tickets[k].author_id}
    /\ tickets' = [tickets EXCEPT ![k].status = Decide(@, "Rejected")]
    /\ tasks' = [tasks EXCEPT ![t] =
                   [IdleTask EXCEPT !.op = "rejected", !.pc = "notify", !.ticket = k,
                       !.user = tickets[k].author_id, !.kind = tickets[k].kind,
                       !.mins = cooldown_ok(tickets[k].author_id).mins,
                       !.first = (tickets[k].status = "Pending")]]
    /\ UNCHANGED <<now, config, render, messages, next_id, sweep>>

\* RejectReasonModal.on_submit (lines 328-332) up to the first await:
\* clear_cooldown, then the direct message is under way.  mins and first
\* record what an observer saw just before: the minutes a cooldown check of
\* the author would have reported (0: allowed) and whether the ticket was
\* still Pending.
RejectReasonModal_on_submit(t, k) ==
    /\ tasks[t].op = "idle"
    /\ k \in modals
    /\ modals' = modals \ {k}
    /\ last_post_at' = clear_cooldown(tickets[k].author_id)
    /\ tickets' = [tickets EXCEPT ![k].status = Decide(@, "Rejected")]
    /\ tasks' = [tasks EXCEPT ![t] =
                   [IdleTask EXCEPT !.op = "rejected", !.pc = "notify", !.ticket = k,
                       !.user = tickets[k].author_id, !.kind = tickets[k].kind,
                       !.mins = cooldown_ok(tickets[k].author_id).mins,
                       !.first = (tickets[k].status = "Pending")]]
    /\ UNCHANGED <<now, config, render, active_message_ids, messages, next_id, sweep>>

\* Notifications outside their try/except: one that raises reaches the
\* handler's except clause and the moderator is answered with the error.
Notify_failing(t) ==
    /\ tasks[t].pc = "notify"
    /\ \E notice \in BOOLEAN, edit \in BOOLEAN :
          /\ tickets' = [tickets EXCEPT ![tasks[t].ticket].view = @ /\ ~(notice /\ edit)]
          /\ tasks' = [tasks EXCEPT ![t] =
                         IF notice /\ edit THEN IdleTask ELSE [@ EXCEPT !.pc = "error"]]
    /\ UNCHANGED <<now, config, render, last_post_at, active_message_ids, messages,
                   next_id, modals, sweep>>

\* The notifications of a decision (lines 378-399, 330-356), each in its own
\* try/except: the direct message to the author is delivered or raises; the
\* notice in the queue channel is sent or raises, and when it raises the outer
\* except skips the edit; edit(view=None) removes the buttons or raises.  Then
\* the moderator is answered.  None of these calls reads or writes the
\* dictionaries, so the three awaits are one step; the direct message leaves
\* no trace in the state.
Notify(t) ==
    /\ tasks[t].pc = "notify"
    /\ \E notice \in BOOLEAN, edit \in BOOLEAN :
          tickets' = [tickets EXCEPT ![tasks[t].ticket].view = @ /\ ~(notice /\ edit)]
    /\ tasks' = [tasks EXCEPT ![t] = IdleTask]
    /\ UNCHANGED <<now, config, render, last_post_at, active_message_ids, messages,
                   next_id, modals, sweep>>

\* The private acknowledgement that ends a handler: it stopped early, raised,
\* or posted directly (lines 192, 206, 226, 231, 371).
Respond(t) ==
    /\ tasks[t].pc \in {"blocked", "noqueue", "error", "denied", "posted"}
    /\ tasks' = [tasks EXCEPT ![t] = IdleTask]
    /\ UNCHANGED <<now, config, render, last_post_at, active_message_ids, messages,
                   next_id, tickets, modals, sweep>>

\* ------------------------------------------------------------ expire_loop
\* All orders in which list(active_message_ids.items()) can list the entries.
Orders(S) ==
    {q \in [1..Cardinality(S) -> S] : \A a, b \in 1..Cardinality(S) : a # b => q[a] # q[b]}

\* The loop of lines 510-525 from item i, channel index j, to its next await;
\* pc "end" when both loops are over.
expire_position(sw, i, j) ==
    LET jj == NextChan(j) IN
    IF i > Len(sw.items) THEN [sw EXCEPT !.pc = "end", !.i = 0, !.cidx = 0]
    ELSE IF jj # 3 THEN [sw EXCEPT !.pc = "fetch", !.i = i, !.cidx = jj]
    ELSE IF i + 1 > Len(sw.items) \/ NextChan(1) = 3
         THEN [sw EXCEPT !.pc = "end", !.i = 0, !.cidx = 0]
         ELSE [sw EXCEPT !.pc = "fetch", !.i = i + 1, !.cidx = NextChan(1)]

\* A sweep that forgets lines 526-527.
expire_pop_nothing(sw) == active_message_ids

\* Lines 526-527, then asyncio.sleep: what a sweep that reached pc "end"
\* leaves in the registry.
expire_pop(sw) == {e \in active_message_ids : e[1] \notin sw.to_delete}

expire_commit(sw) ==
    /\ sweep' = IF sw.pc = "end" THEN IdleSweep ELSE sw
    /\ active_message_ids' = IF sw.pc = "end" THEN expire_pop(sw)
                             ELSE active_message_ids

\* A sweep begins (lines 508-510).  Beside the code's snapshot, seen records
\* for every snapshot entry when its message was created (NoTime when the
\* message is gone), and raised collects the users for whose message a fetch
\* or delete of this sweep raised although the message was not in another
\* channel; the code reads neither.
expire_start ==
    /\ sweep.pc = "sleep"
    /\ \E q \in Orders(active_message_ids) :
          expire_commit(expire_position(
              [IdleSweep EXCEPT !.now = now, !.items = q,
                  !.seen = [i \in 1..Len(q) |-> CreatedAt(q[i][2])]], 1, 1))
    /\ UNCHANGED <<now, config, render, last_post_at, messages, next_id, tickets,
                   modals, tasks>>

\* A loop body whose except clause leaves the loops: a call that raises ends
\* the sweep.
expire_visit_aborting ==
    /\ sweep.pc = "fetch"
    /\ LET uid == sweep.items[sweep.i][1]
           mid == sweep.items[sweep.i][2]
           c == Channels[sweep.cidx]
       IN \/ /\ IsLive(mid) /\ MessageOf(mid).chan = c
             /\ IF sweep.now - MessageOf(mid).at > ExpiryWindow
                THEN /\ messages' = messages \ {MessageOf(mid)}
                     /\ expire_commit(expire_position(
                            [sweep EXCEPT !.to_delete = @ \cup {uid}], sweep.i + 1, 1))
                ELSE /\ UNCHANGED messages
                     /\ expire_commit(expire_position(sweep, sweep.i, sweep.cidx + 1))
          \/ /\ UNCHANGED messages
             /\ expire_commit([sweep EXCEPT !.pc = "end"])
    /\ UNCHANGED <<now, config, render, last_post_at, next_id, tickets, modals, tasks>>

\* A loop body without its try/except: a call that raises ends expire_loop.
expire_visit_unguarded ==
    /\ sweep.pc = "fetch"
    /\ LET uid == sweep.items[sweep.i][1]
           mid == sweep.items[sweep.i][2]
           c == Channels[sweep.cidx]
       IN \/ /\ IsLive(mid) /\ MessageOf(mid).chan = c
             /\ IF sweep.now - MessageOf(mid).at > ExpiryWindow
                THEN /\ messages' = messages \ {MessageOf(mid)}
                     /\ expire_commit(expire_position(
                            [sweep EXCEPT !.to_delete = @ \cup {uid}], sweep.i + 1, 1))
                ELSE /\ UNCHANGED messages
                     /\ expire_commit(expire_position(sweep, sweep.i, sweep.cidx + 1))
          \/ /\ UNCHANGED <<messages, active_message_ids>>
             /\ sweep' = [sweep EXCEPT !.pc = "crashed"]
    /\ UNCHANGED <<now, config, render, last_post_at, next_id, tickets, modals, tasks>>

\* One pass of the loop body (lines 517-525) on item i, channel cidx:
\* fetch_message returns the message and, when it is older than the window,
\* delete removes it; or one of the two calls raises and the loop continues.
expire_visit ==
    /\ sweep.pc = "fetch"
    /\ LET uid == sweep.items[sweep.i][1]
           mid == sweep.items[sweep.i][2]
           c == Channels[sweep.cidx]
       IN \/ /\ IsLive(mid) /\ MessageOf(mid).chan = c
             /\ IF sweep.now - MessageOf(mid).at > ExpiryWindow
                THEN /\ messages' = messages \ {MessageOf(mid)}
                     /\ expire_commit(expire_position(
                            [sweep EXCEPT !.to_delete = @ \cup {uid}], sweep.i + 1, 1))
                ELSE /\ UNCHANGED messages
                     /\ expire_commit(expire_position(sweep, sweep.i, sweep.cidx + 1))
          \/ /\ UNCHANGED messages
             /\ expire_commit(expire_position(
                    IF IsLive(mid) /\ MessageOf(mid).chan # c THEN sweep
                    ELSE [sweep EXCEPT !.raised = @ \cup {uid}],
                    sweep.i, sweep.cidx + 1))
    /\ UNCHANGED <<now, config, render, last_post_at, next_id, tickets, modals, tasks>>

Next ==
    \/ Tick
    \/ LFTModal_on_submit
    \/ LFPModal_on_submit
    \/ \E t \in TaskIds : QueueSend(t)
    \/ \E t \in TaskIds : maybe_delete_previous(t)
    \/ \E t \in TaskIds : post_embed_send(t)
    \/ \E t \in TaskIds : post_embed_return(t)
    \/ ApprovalView_approve
    \/ ApprovalView_reject
    \/ \E t \in TaskIds, k \in modals : RejectReasonModal_on_submit(t, k)
    \/ \E t \in TaskIds : Notify(t)
    \/ \E t \in TaskIds : Respond(t)
    \/ expire_start
    \/ expire_visit

Spec == Init /\ [][Next]_vars

\* ------------------------------------------------- SpecCooldown
\* Direct posting under a clock that advances in steps of ClockStep seconds,
\* at any moment: the cooldown window seen from inside.
InitCooldown ==
    /\ Init
    /\ LFP_CHANNEL_ID = NoChannel
    /\ MOD_QUEUE_CHANNEL_ID = NoChannel

SecondsTick ==
    /\ now < MaxSteps * ClockStep
    /\ now' = now + ClockStep
    /\ UNCHANGED <<config, render, last_post_at, active_message_ids, messages, next_id,
                   tickets, modals, tasks, sweep>>

NextCooldown ==
    \/ SecondsTick
    \/ \E t \in TaskIds : on_submit(t, "u1", "lft")
    \/ \E t \in TaskIds : maybe_delete_previous(t)
    \/ \E t \in TaskIds : post_embed_send(t)
    \/ \E t \in TaskIds : post_embed_return(t)
    \/ \E t \in TaskIds : Respond(t)

SpecCooldown == InitCooldown /\ [][NextCooldown]_vars

\* ------------------------------------------------- SpecQueued
\* Moderation is on and one user has two submissions waiting in the queue.
QueuedTicket(u) ==
    [kind |-> "lft", author_id |-> u, view |-> TRUE, status |-> "Pending"]

InitQueued ==
    /\ now = 0
    /\ LFT_CHANNEL_ID = LftChannel
    /\ LFP_CHANNEL_ID = NoChannel
    /\ MOD_QUEUE_CHANNEL_ID = QueueChannel
    /\ last_post_at = [u \in Users |-> NoTime]
    /\ active_message_ids = {}
    /\ messages = {}
    /\ next_id = 1
    /\ tickets = <<QueuedTicket("u1"), QueuedTicket("u1")>>
    /\ modals = {}
    /\ tasks = [t \in TaskIds |-> IdleTask]
    /\ sweep = IdleSweep
    /\ render = NoRender

NextQueued ==
    \/ Tick
    \/ LFTModal_on_submit
    \/ \E t \in TaskIds : maybe_delete_previous(t)
    \/ \E t \in TaskIds : post_embed_send(t)
    \/ \E t \in TaskIds : post_embed_return(t)
    \/ ApprovalView_approve
    \/ ApprovalView_reject
    \/ \E t \in TaskIds, k \in modals : RejectReasonModal_on_submit(t, k)
    \/ \E t \in TaskIds : Notify(t)
    \/ \E t \in TaskIds : Respond(t)

SpecQueued == InitQueued /\ [][NextQueued]_vars

\* ------------------------------------------------- SpecEnqueue
\* Moderation is on.  One user has an approved listing, published just now;
\* both users keep submitting forms.
InitEnqueue ==
    /\ now = 0
    /\ LFT_CHANNEL_ID = LftChannel
    /\ LFP_CHANNEL_ID = NoChannel
    /\ MOD_QUEUE_CHANNEL_ID = QueueChannel
    /\ last_post_at = [u \in Users |-> IF u = "u2" THEN 0 ELSE NoTime]
    /\ active_message_ids = {<<"u2", 1>>}
    /\ messages = {[id |-> 1, chan |-> LftChannel, at |-> 0, owner |-> "u2"]}
    /\ next_id = 2
    /\ tickets = <<[kind |-> "lft", author_id |-> "u2", view |-> FALSE,
                    status |-> "Approved"]>>
    /\ modals = {}
    /\ tasks = [t \in TaskIds |-> IdleTask]
    /\ sweep = IdleSweep
    /\ render = NoRender

NextEnqueue ==
    \/ \E t \in TaskIds, u \in Users, k \in {"lft", "lfp"} :
          on_submit_within(t, u, k, TicketRoom(MaxQueued), FALSE)
    \/ \E t \in TaskIds : QueueSend(t)
    \/ \E t \in TaskIds : Respond(t)

SpecEnqueue == InitEnqueue /\ [][NextEnqueue]_vars

\* ------------------------------------------------- SpecSweeping
\* Direct posting through one handler while expire_loop runs.  The event
\* loop resumes expire_loop when the call it awaits has completed and when
\* its sleep is over: both of its steps are weakly fair.
InitSweeping ==
    /\ Init
    /\ MOD_QUEUE_CHANNEL_ID = NoChannel

NextSweeping ==
    \/ Tick
    \/ \E u \in Users : on_submit("h1", u, "lft")
    \/ maybe_delete_previous("h1")
    \/ post_embed_send("h1")
    \/ post_embed_return("h1")
    \/ Respond("h1")
    \/ expire_start
    \/ expire_visit

SpecSweeping ==
    /\ InitSweeping /\ [][NextSweeping]_vars
    /\ WF_vars(expire_start) /\ WF_vars(expire_visit)

\* ------------------------------------------------- SpecText
\* The summary of a listing: a form whose long field holds one of the Texts
\* is rendered by post_embed (lines 121-122).
InitText ==
    /\ now = 0
    /\ LFT_CHANNEL_ID = LftChannel
    /\ LFP_CHANNEL_ID = NoChannel
    /\ MOD_QUEUE_CHANNEL_ID = NoChannel
    /\ last_post_at = [u \in Users |-> NoTime]
    /\ active_message_ids = {}
    /\ messages = {}
    /\ next_id = 1
    /\ tickets = <<>>
    /\ modals = {}
    /\ tasks = [t \in TaskIds |-> IdleTask]
    /\ sweep = IdleSweep
    /\ render \in {[NoRender EXCEPT !.pc = "form", !.kind = k, !.name = n,
                                     !.details = d] :
                       k \in {"lft", "lfp"}, n \in ShortTexts, d \in Texts}

\* Lines 120-134: the title, the summary and the labeled sections.
post_embed_summary ==
    /\ render.pc = "form"
    /\ LET built == build_title_and_fields(render.kind, render)
           long_key == LongKey(render.kind)
       IN render' = [render EXCEPT
                        !.pc = "embed",
                        !.title = built.title,
                        !.summary = clean(fields_get(built.fields, long_key), SummaryLimit),
                        !.sections = add_fields(built.fields, long_key)]
    /\ UNCHANGED <<now, config, last_post_at, active_message_ids, messages,
                   next_id, tickets, modals, tasks, sweep>>

NextText == post_embed_summary

SpecText == InitText /\ [][NextText]_vars

\* ================================================================ claims
\* Steps of the handlers, as seen from outside.
\* Handler t's channel.send has returned the new listing.
Published(t) == tasks[t].pc = "send" /\ tasks'[t].pc = "thread"
\* Handler t has run mark_post.
Registered(t) == tasks[t].pc = "thread" /\ tasks'[t].pc # "thread"
\* A RejectReasonModal for ticket k has been submitted.
Rejected(k) == k \in modals /\ k \notin modals'

\* C1: approving one ticket twice publishes one listing only: an approve
\* handler never publishes for a ticket that an approve handler has already
\* published for.  (Every approve handler that publishes goes on to send the
\* author's direct message, so a second publication is a second notification.)
C1_ApproveOnce ==
    [][\A t \in TaskIds :
          (tasks[t].op = "approve" /\ Published(t))
              => tickets[tasks[t].ticket].status # "Approved"]_vars

\* C2: a ticket leaves Pending at most once: a decision (a publication by an
\* approve handler, or a submitted rejection) takes effect only on a ticket
\* that is still Pending.
C2_DecideOnce ==
    [][\A k \in 1..Len(tickets) :
          (Rejected(k) \/ \E t \in TaskIds : /\ tasks[t].op = "approve"
                                              /\ tasks[t].ticket = k
                                              /\ Published(t))
              => tickets[k].status = "Pending"]_vars

\* C3: in every reachable state the registry holds at most one entry per user.
C3_OneActivePost ==
    \A u \in Users : Cardinality({e \in active_message_ids : e[1] = u}) <= 1

\* A user's second listing is registered while the first is still live (its
\* delete failed or was never tried).
C3_Witness ==
    \E u \in Users, e \in active_message_ids, m \in messages :
        e[1] = u /\ m.owner = u /\ m.id # e[2]

\* C4: two successful publications of one user are at least one cooldown
\* window apart: when a handler registers a new listing for a user whose
\* cooldown record is set (no rejection has cleared it since the previous
\* publication), the record is at least one window old.
C4_PublicationSpacing ==
    [][\A t \in TaskIds :
          (Registered(t) /\ last_post_at[tasks[t].user] # NoTime)
              => now - last_post_at[tasks[t].user] >= CooldownWindow]_vars

\* C5: cooldown law: a submission by a user whose publication was recorded
\* at time last is answered Blocked, with at least 1 minute reported, while
\* now - last < window, and is let through from last + window on.
C5_CooldownLaw ==
    [][\A t \in TaskIds :
          (tasks[t].op = "idle" /\ tasks'[t].op = "submit"
             /\ last_post_at[tasks'[t].user] # NoTime)
              => IF now - last_post_at[tasks'[t].user] < CooldownWindow
                 THEN tasks'[t].pc = "blocked" /\ tasks'[t].mins >= 1
                 ELSE tasks'[t].pc # "blocked"]_vars

\* A submission is blocked less than a minute before the window ends, and
\* the answer reports 1 minute.
C5_Witness ==
    \E t \in TaskIds :
        /\ tasks[t].pc = "blocked" /\ tasks[t].mins = 1
        /\ last_post_at[tasks[t].user] # NoTime
        /\ CooldownWindow - (now - last_post_at[tasks[t].user]) \in 1..59

\* C6: reject law: when the author of a Pending ticket is blocked and the
\* ticket is rejected, a cooldown check of the author is Allowed right after;
\* and only a publication by a user sets that user's cooldown record again.
C6_RejectLaw ==
    [][/\ \A k \in 1..Len(tickets) :
             (Rejected(k) /\ tickets[k].status = "Pending"
                /\ ~cooldown_ok(tickets[k].author_id).ok)
                 => (cooldown_ok(tickets[k].author_id).ok)'
       /\ \A u \in Users :
             (last_post_at[u] = NoTime /\ last_post_at'[u] # NoTime)
                 => \E t \in TaskIds : Registered(t) /\ tasks[t].user = u]_vars

\* A blocked author's Pending ticket has been rejected, and a cooldown check
\* of the author is Allowed.
C6_Witness ==
    \E t \in TaskIds :
        /\ tasks[t].op = "rejected" /\ tasks[t].first /\ tasks[t].mins > 0
        /\ cooldown_ok(tasks[t].user).ok

\* C7: supersession: when a handler that found listing A registered for the
\* user registers the new listing B, the registry then holds B and nothing
\* else for the user, and the fetch-and-delete of A has been run before.
C7_Supersession ==
    [][\A t \in TaskIds :
          Registered(t)
              => /\ {e \in active_message_ids' : e[1] = tasks[t].user}
                       = {<<tasks[t].user, tasks[t].msg>>}
                 /\ tasks[t].mid # 0 => tasks[t].tried]_vars

\* A second listing of a user is registered; the first was found in the
\* registry and deleted by the same handler.
C7_Witness ==
    \E t \in TaskIds :
        /\ tasks[t].pc \in {"posted", "notify"}
        /\ tasks[t].mid # 0 /\ tasks[t].deleted /\ tasks[t].msg # tasks[t].mid
        /\ registry_get(tasks[t].user) = tasks[t].msg
        /\ ~IsLive(tasks[t].mid)

\* C8: expiry law.  Entry j of the running sweep's snapshot:
LiveAfter(mid) == \E m \in messages' : m.id = mid
SweepUser(j) == sweep.items[j][1]
SweepPost(j) == sweep.items[j][2]
PastExpiry(j) ==
    sweep.seen[j] # NoTime /\ sweep.now - sweep.seen[j] = ExpiryWindow + Day
ShortOfExpiry(j) ==
    sweep.seen[j] # NoTime /\ sweep.now - sweep.seen[j] = ExpiryWindow - Day
SweepStep == sweep.pc = "fetch" /\ sweep' # sweep
SweepEnds == sweep.pc = "fetch" /\ sweep'.pc = "sleep"
\* A fetch or delete of this sweep for entry j raised (the last visit of a
\* sweep raised when it left the messages as they were).
RaisedFor(j) ==
    \/ SweepUser(j) \in sweep.raised
    \/ j = sweep.i /\ messages' = messages

\* The post the sweep found one day short of the window is not touched.
SurvivesSweep ==
    \A j \in 1..Len(sweep.items) :
        (SweepStep /\ ShortOfExpiry(j))
            => /\ IsLive(SweepPost(j)) => LiveAfter(SweepPost(j))
               /\ <<SweepUser(j), SweepPost(j)>> \in active_message_ids
                     => <<SweepUser(j), SweepPost(j)>> \in active_message_ids'

C9_FailedPublishKeepsState ==
    \A t \in TaskIds :
        tasks[t].pc = "error" => tasks[t].msg = 0 /\ ~tasks[t].deleted

\* C10: permission gate: no step of a handler whose actor lacks
\* manage_messages changes the messages, the registry, the cooldown records,
\* the tickets or the open reject forms.
C10_PermissionGate ==
    [][\A t \in TaskIds :
          (tasks'[t] # tasks[t] /\ (~tasks[t].perm \/ ~tasks'[t].perm))
              => UNCHANGED <<messages, next_id, active_message_ids,
                             last_post_at, tickets, modals>>]_vars

\* An unauthorised actor has pressed a button of a Pending ticket, which still
\* carries its buttons.
C10_Witness ==
    \E t \in TaskIds :
        /\ tasks[t].pc = "denied" /\ ~tasks[t].perm
        /\ tickets[tasks[t].ticket].status = "Pending"
        /\ tickets[tasks[t].ticket].view

\* C15: truncation.  A long text whose whitespace-collapsed form is longer
\* than the limit is rendered as its first limit - 1 characters followed by
\* one ellipsis character, limit characters in all; a shorter one is rendered
\* as its collapsed form.
Ellipsis == "ellipsis"
Collapsed(text) == strip(re_sub(text))
C15_Truncation ==
    render.pc = "embed" =>
        LET c == Collapsed(render.details) IN
        IF Len(c) > SummaryLimit
        THEN /\ render.summary = SubSeq(c, 1, SummaryLimit - 1) \o <<Ellipsis>>
             /\ Len(render.summary) = SummaryLimit
        ELSE render.summary = c

\* A form is submitted to handler t and the code up to the first await runs.
Submitted(t) == tasks[t].op = "idle" /\ tasks'[t].op = "submit"

\* C11: moderation routing.  With a queue channel configured no submit
\* handler ever publishes: a listing is sent by an approve handler only, for
\* the ticket it was pressed on.  With none configured (0) a submission that
\* passes the cooldown check goes straight into the publish (the delete of
\* the previous listing, the send, or the error of a publish that raised) and
\* no ticket is ever created.
C11_ModerationRouting ==
    [][\A t \in TaskIds :
          IF MOD_QUEUE_CHANNEL_ID # NoChannel
          THEN /\ Published(t) => /\ tasks[t].op = "approve"
                                  /\ tasks[t].ticket \in 1..Len(tickets)
                                  /\ tickets[tasks[t].ticket].author_id = tasks[t].user
               /\ tasks'[t].op = "submit"
                     => tasks'[t].pc \in {"blocked", "noqueue", "qsend", "error"}
          ELSE /\ tickets = <<>> /\ tickets' = <<>>
               /\ (Submitted(t) /\ cooldown_ok(tasks'[t].user).ok)
                     => tasks'[t].pc \in {"del", "send", "error"}
               /\ (tasks[t].op = "submit" /\ tasks'[t].op = "idle"
                      /\ tasks[t].pc \notin {"blocked", "error"})
                     => tasks[t].pc = "posted" /\ tasks[t].msg # 0]_vars

\* Moderation is on and the listing of an approved ticket is live.
C11_Witness ==
    /\ MOD_QUEUE_CHANNEL_ID # NoChannel
    /\ \E k \in 1..Len(tickets), m \in messages :
          tickets[k].status = "Approved" /\ m.owner = tickets[k].author_id

\* C12: enqueueing leaves the cooldown records and the registry as they are,
\* and a submission by a user whose cooldown check is Allowed is sent to the
\* queue however many Pending tickets the user already has.
PendingOf(u) ==
    {k \in 1..Len(tickets) : tickets[k].author_id = u /\ tickets[k].status = "Pending"}
C12_EnqueueFrame ==
    [][\A t \in TaskIds, u \in Users :
          /\ (Submitted(t) \/ tasks[t].pc = "qsend")
                => UNCHANGED <<last_post_at, active_message_ids>>
          /\ (Submitted(t) /\ tasks'[t].user = u /\ cooldown_ok(u).ok)
                => /\ tasks'[t].pc = "qsend"
                   /\ (cooldown_ok(u).ok)']_vars

\* A user with two Pending tickets has a third submission on its way to the
\* queue.
C12_Witness ==
    \E t \in TaskIds :
        /\ tasks[t].pc = "qsend"
        /\ Cardinality(PendingOf(tasks[t].user)) >= 2

\* C13: a rejection never publishes: the steps of a rejection (the submitted
\* reason form and its notifications) send no listing, delete none and leave
\* the registry as it is; the only cooldown record that changes is the one of
\* the ticket's author, which is removed.
C13_RejectFrame ==
    [][((\E k \in 1..Len(tickets) : Rejected(k))
          \/ \E t \in TaskIds : tasks[t].op = "rejected" /\ tasks'[t] # tasks[t])
         => /\ UNCHANGED <<messages, next_id, active_message_ids>>
            /\ \A u \in Users :
                  last_post_at'[u] # last_post_at[u]
                      => /\ last_post_at'[u] = NoTime
                         /\ \E k \in 1..Len(tickets) :
                               Rejected(k) /\ tickets[k].author_id = u]_vars

\* A ticket has been rejected while its author has a live, registered
\* listing: the listing and the entry are still there, the record is gone.
C13_Witness ==
    \E t \in TaskIds :
        /\ tasks[t].op = "rejected"
        /\ registry_get(tasks[t].user) # 0
        /\ IsLive(registry_get(tasks[t].user))
        /\ last_post_at[tasks[t].user] = NoTime

\* C14: the expiry scheduler never stops: expire_loop is always either in
\* its sleep or inside a sweep; every sweep, also one in which a fetch or a
\* delete raised, comes to its sleep; and from the sleep another sweep of the
\* registered listings begins.
C14_SchedulerGoesOn ==
    /\ [](sweep.pc \in {"sleep", "fetch"})
    /\ (sweep.pc = "fetch") ~> (sweep.pc = "sleep")
    /\ (sweep.pc = "sleep" /\ active_message_ids # {}) ~> (sweep.pc = "fetch")

\* A fetch or delete of the running sweep has raised and the sweep goes on
\* with its next entry.
C14_Witness ==
    /\ sweep.pc = "fetch"
    /\ sweep.raised # {}
    /\ sweep.i > 1

\* C16: a sweep and a publish of the same user: an entry that was registered
\* while the sweep was in progress (it is not in the sweep's snapshot, and
\* its listing was not deleted by the sweep) is still in the registry when
\* the sweep has finished.
C16_SweepKeepsNewEntry ==
    [][SweepEnds =>
          \A e \in active_message_ids :
              (\A j \in 1..Len(sweep.items) : sweep.items[j] # e)
                  => e \in active_message_ids']_vars

\* C17: two concurrent publishes of one user.  When two handlers have both
\* published for the same user, every delete either of them tried succeeded
\* and no sweep is running, exactly one listing of the user is live and it is
\* the one in the registry.
Finished(t) == tasks[t].pc \in {"posted", "notify"}
DeletesSucceeded(t) == tasks[t].tried => tasks[t].deleted
LiveOf(u) == {m \in messages : m.owner = u}
C17_ConcurrentPublish ==
    \A t1, t2 \in TaskIds :
        (/\ t1 # t2 /\ tasks[t1].user = tasks[t2].user
         /\ Finished(t1) /\ Finished(t2)
         /\ DeletesSucceeded(t1) /\ DeletesSucceeded(t2)
         /\ sweep.pc = "sleep")
            => /\ Cardinality(LiveOf(tasks[t1].user)) = 1
               /\ \A m \in LiveOf(tasks[t1].user) : m.id = registry_get(tasks[t1].user)

\* C18: an entry whose listing is already gone.  Entry j of the snapshot was
\* registered more than the expiry window ago (the user's cooldown record is
\* the time of the mark_post that made the entry) and its message no longer
\* exists: when the sweep ends the entry is out of the registry.
GoneAndOld(j) ==
    /\ sweep.seen[j] = NoTime
    /\ sweep.items[j] \in active_message_ids
    /\ last_post_at[SweepUser(j)] # NoTime
    /\ sweep.now - last_post_at[SweepUser(j)] > ExpiryWindow
C18_GoneEntryRemoved ==
    [][\A j \in 1..Len(sweep.items) :
          (SweepEnds /\ GoneAndOld(j)) => sweep.items[j] \notin active_message_ids']_vars

\* C19: a failure on one entry does not stop the sweep.  When a sweep in
\* which a fetch or delete for some entry raised comes to its end, every
\* other entry whose listing was older than the window at the snapshot, and
\* for which no call raised, has its listing deleted and is out of the
\* registry.
OlderThanWindow(j) ==
    sweep.seen[j] # NoTime /\ sweep.now - sweep.seen[j] > ExpiryWindow
C19_SweepGoesOn ==
    [][\A i, j \in 1..Len(sweep.items) :
          (SweepEnds /\ i # j /\ RaisedFor(i) /\ OlderThanWindow(j) /\ ~RaisedFor(j))
              => /\ ~LiveAfter(SweepPost(j))
                 /\ sweep.items[j] \notin active_message_ids']_vars

\* A call for an earlier entry of the running sweep has raised, and the sweep
\* is now at an entry whose listing is live and older than the window.
C19_Witness ==
    /\ sweep.pc = "fetch"
    /\ \E i \in 1..(sweep.i - 1) : SweepUser(i) \in sweep.raised
    /\ OlderThanWindow(sweep.i) /\ IsLive(SweepPost(sweep.i))

\* C20: on approve, the notifications cannot undo the decision.  When the
\* approve handler has published, mark_post registers the listing and records
\* the cooldown before any notification is sent; the notifications, whether
\* they are delivered or raise, change no listing, no registry entry and no
\* cooldown record, and the handler ends with its success answer, never in
\* its error branch.
C20_NotifyFrame ==
    [][\A t \in TaskIds :
          /\ (tasks[t].op = "approve" /\ Registered(t))
                => /\ tasks'[t].pc = "notify"
                   /\ LiveAfter(tasks[t].msg)
                   /\ <<tasks[t].user, tasks[t].msg>> \in active_message_ids'
                   /\ last_post_at'[tasks[t].user] = now
          /\ (tasks[t].op = "approve" /\ tasks[t].pc = "notify" /\ tasks'[t] # tasks[t])
                => /\ UNCHANGED <<messages, next_id, active_message_ids, last_post_at>>
                   /\ tasks'[t] = IdleTask]_vars

\* An approve handler has ended although its queue notice or the edit of the
\* queue message raised (the ticket still carries its buttons): the listing
\* is live and registered and the cooldown is recorded.
C20_Witness ==
    /\ \A t \in TaskIds : tasks[t].op = "idle"
    /\ \E k \in 1..Len(tickets) :
          /\ tickets[k].status = "Approved" /\ tickets[k].view
          /\ registry_get(tickets[k].author_id) # 0
          /\ IsLive(registry_get(tickets[k].author_id))
          /\ last_post_at[tickets[k].author_id] = now

\* C21: a failed delete of the previous listing does not block the publish.
\* A pass of the delete loop that fails leaves the handler in the loop or
\* takes it into post_embed exactly as if nothing had been registered; and
\* when a handler whose delete failed has sent its listing, the listing is
\* live, the registry holds it and nothing else for the author, and the
\* author's cooldown is recorded.
C21_DeleteFailureNoBlock ==
    [][\A t \in TaskIds :
          /\ (tasks[t].pc = "del" /\ tasks'[t] # tasks[t] /\ ~tasks'[t].deleted)
                => tasks'[t].pc \in {"del", post_embed_entry(tasks[t]).pc}
          /\ (Registered(t) /\ tasks[t].tried /\ ~tasks[t].deleted)
                => /\ LiveAfter(tasks[t].msg)
                   /\ {e \in active_message_ids' : e[1] = tasks[t].user}
                         = {<<tasks[t].user, tasks[t].msg>>}
                   /\ last_post_at'[tasks[t].user] = now]_vars

\* A handler has published although the delete of the previous listing
\* failed: the old listing is still live, the new one is live and registered
\* and the cooldown is recorded.
C21_Witness ==
    \E t \in TaskIds :
        /\ Finished(t) /\ tasks[t].mid # 0 /\ tasks[t].tried /\ ~tasks[t].deleted
        /\ IsLive(tasks[t].mid) /\ IsLive(tasks[t].msg)
        /\ registry_get(tasks[t].user) = tasks[t].msg
        /\ last_post_at[tasks[t].user] = now

\* C22: a blocked submission changes nothing: the step that answers Blocked
\* and the step that ends the blocked handler leave the tickets, the open
\* reject forms, the listings, the registry and every cooldown record as
\* they are, and a blocked handler does nothing but end.
C22_BlockedFrame ==
    [][\A t \in TaskIds :
          /\ (tasks'[t] # tasks[t] /\ (tasks[t].pc = "blocked" \/ tasks'[t].pc = "blocked"))
                => UNCHANGED <<tickets, modals, messages, next_id,
                               active_message_ids, last_post_at>>
          /\ (tasks[t].pc = "blocked" /\ tasks'[t] # tasks[t])
                => tasks'[t] = IdleTask]_vars

\* A user with a live, registered listing and a running cooldown has been
\* answered Blocked.
C22_Witness ==
    \E t \in TaskIds :
        /\ tasks[t].pc = "blocked" /\ tasks[t].mins >= 1
        /\ registry_get(tasks[t].user) # 0
        /\ IsLive(registry_get(tasks[t].user))
        /\ last_post_at[tasks[t].user] # NoTime

\* C23: every text of a published listing has its whitespace collapsed: the
\* title, the summary and the value of each labeled section neither begin nor
\* end with whitespace and hold no two whitespace characters in a row.
IsCollapsed(text) ==
    /\ Len(text) > 0 => ~IsSpace(text[1]) /\ ~IsSpace(text[Len(text)])
    /\ \A i \in 1..(Len(text) - 1) : ~(IsSpace(text[i]) /\ IsSpace(text[i + 1]))
C23_WhitespaceCollapsed ==
    render.pc = "embed" =>
        /\ IsCollapsed(render.title)
        /\ IsCollapsed(render.summary)
        /\ \A i \in 1..Len(render.sections) : IsCollapsed(render.sections[i])
====
